---- MODULE Spec2Model ----
(***************************************************************************)
(* Model of the ETF checker's baseline-tracking monitor                    *)
(* (etf_checker/app/etf_monitor.py, storage.py, ha_client.py, main.py).    *)
(*                                                                         *)
(* Two threads run cycles: "timer" executes EtfMonitor._run_loop and "web" *)
(* executes the Flask routes /api/poll and /api/config.  run_once is split *)
(* at the points where it takes and releases self._lock, and at every call *)
(* that leaves the process (price provider, notification gateway).         *)
(*                                                                         *)
(* The process can end and be started again at any moment (restart), and  *)
(* the file of baselines is a JSON document that save_state writes and     *)
(* load_state parses.  Separate specifications apply save_state and        *)
(* load_state to records and files (SpecStorage), _split_service to        *)
(* service ids (SpecSplit), percent_change to numbers (SpecPure), run one  *)
(* call of default_price_provider through its providers (SpecProvider),   *)
(* one call of _fetch_prices_batch request by request (SpecRetry), and     *)
(* several calls of _fetch_prices_yahoo_with_crumb with time passing       *)
(* between them (SpecCrumb).                                               *)
(*                                                                         *)
(* Numbers: prices are integers (a fixed unit of 0.1 currency; the         *)
(* percentage is unit-free) and percentages are exact fractions <<n, d>>   *)
(* in lowest terms with d > 0.  Floating-point rounding is not modelled.   *)
(***************************************************************************)
EXTENDS Integers, Sequences, FiniteSets, TLC

VARIABLES
    config,      \* EtfMonitor._config (the active EffectiveConfig)
    haClient,    \* EtfMonitor._ha_client
    baselines,   \* EtfMonitor._state.baselines: symbol -> price
    file,        \* content of STATE_PATH
    lock,        \* EtfMonitor._lock: "free" or the thread holding it
    stopEvent,   \* EtfMonitor._stop_event
    pc,          \* position of each thread
    loc,         \* run_once's local variables, per thread
    cyc,         \* what the current cycle of each thread has done (history)
    interval,    \* _run_loop's local variable
    cycles,      \* number of run_once calls started
    updates,     \* number of update_config calls made
    snap,        \* the dict a read of EtfMonitor.state handed to the web thread
    pcRef, pcCur, pcOut, pcDone,  \* an application of percent_change
    store,       \* an application of save_state and load_state
    svc,         \* an application of _split_service
    prov,        \* a call of default_price_provider
    req,         \* a call of _fetch_prices_batch, request by request
    yh           \* _yahoo_session, _yahoo_crumb, _yahoo_crumb_timestamp and
                 \* the calls of _fetch_prices_yahoo_with_crumb

vars == <<config, haClient, baselines, file, lock, stopEvent, pc, loc, cyc,
          interval, cycles, updates, snap, pcRef, pcCur, pcOut, pcDone,
          store, svc, prov, req, yh>>

monVars == <<config, haClient, baselines, file, lock, stopEvent, pc, loc, cyc,
             interval, cycles, updates, snap>>

pureVars == <<pcRef, pcCur, pcOut, pcDone, store, svc, prov, req, yh>>

-----------------------------------------------------------------------------
(* Bounds *)

MaxCycles == 2

MaxUpdates == 1

-----------------------------------------------------------------------------
(* Exact fractions *)

Abs(x) == IF x < 0 THEN -x ELSE x

RECURSIVE GCD(_, _)
GCD(a, b) == IF b = 0 THEN a ELSE GCD(b, a % b)

Rat(n, d) ==
    LET g == GCD(Abs(n), Abs(d))
        s == IF d < 0 THEN -1 ELSE 1
    IN  <<(s * n) \div g, (s * d) \div g>>

RatAbs(x) == <<Abs(x[1]), x[2]>>

RatGeq(x, y) == x[1] * y[2] >= y[1] * x[2]

RatGt(x, y) == x[1] * y[2] > y[1] * x[2]

-----------------------------------------------------------------------------
(* percent_change *)

percent_change_unscaled(reference, current) ==
    IF reference = 0 THEN Rat(0, 1) ELSE Rat(current - reference, reference)

percent_change(reference, current) ==
    IF reference = 0 THEN Rat(0, 1)
    ELSE Rat((current - reference) * 100, reference)

-----------------------------------------------------------------------------
(* Data *)

Threads == {"timer", "web"}

Symbols == {"A", "B"}

Prices == {980, 1000, 1020}

\* The prices each symbol is quoted at.
Quotes == [s \in Symbols |-> IF s = "A" THEN {1000, 1020} ELSE {980}]

\* The order in which this model walks a price map (dict order in the code).
SymOrder == <<"A", "B">>

EmptyMap == [s \in {} |-> 0]

\* AddonOptions / UiConfig values the monitor is run with.  Strings that the
\* code inspects character by character are sequences of characters.
Url == <<"h", "/">>

\* an address that rstrip("/") leaves empty
UrlOnlySlash == <<"/">>

ServiceSlash == <<"n", "/", "x">>

EffectiveConfig(symbols, threshold, url, token, service, poll) ==
    [etf_symbols |-> symbols, threshold_percent |-> threshold,
     homeassistant_url |-> url, homeassistant_token |-> token,
     notify_service |-> service, poll_interval_seconds |-> poll]

Configs ==
    { EffectiveConfig(<<"A", "B", "A">>, Rat(2, 1), Url, "tok", ServiceSlash, 300),
      EffectiveConfig(<<"A">>, Rat(3, 2), UrlOnlySlash, "tok2", ServiceSlash, 0),
      EffectiveConfig(<<>>, Rat(2, 1), Url, "", ServiceSlash, -5) }

-----------------------------------------------------------------------------
(* ha_client.py *)

RECURSIVE rstrip_slash(_)
rstrip_slash(s) ==
    IF s # <<>> /\ s[Len(s)] = "/" THEN rstrip_slash(SubSeq(s, 1, Len(s) - 1))
    ELSE s

HomeAssistantClient(c) ==
    [base_url |-> rstrip_slash(c.homeassistant_url),
     token |-> c.homeassistant_token,
     notify_service |-> c.notify_service]

is_configured(client) ==
    client.base_url # <<>> /\ client.token # "" /\ client.notify_service # <<>>

FirstIndex(s, ch) ==
    IF \E i \in 1..Len(s) : s[i] = ch
    THEN CHOOSE i \in 1..Len(s) : s[i] = ch /\ \A j \in 1..(i - 1) : s[j] # ch
    ELSE 0

_split_service_dot_first(service) ==
    LET slash == FirstIndex(service, "/")
        dot == FirstIndex(service, ".")
        at == IF dot > 0 THEN dot ELSE slash
    IN  IF at = 0 THEN [ok |-> FALSE, domain |-> <<>>, svc |-> <<>>]
        ELSE [ok |-> TRUE, domain |-> SubSeq(service, 1, at - 1),
              svc |-> SubSeq(service, at + 1, Len(service))]

_split_service(service) ==
    LET slash == FirstIndex(service, "/")
        dot == FirstIndex(service, ".")
        at == IF slash > 0 THEN slash ELSE dot
    IN  IF at = 0 THEN [ok |-> FALSE, domain |-> <<>>, svc |-> <<>>]
        ELSE [ok |-> TRUE, domain |-> SubSeq(service, 1, at - 1),
              svc |-> SubSeq(service, at + 1, Len(service))]

\* The ways a call of send_notification on this client can end: it raises
\* when the client is not configured or the service id does not split,
\* otherwise the HTTP request succeeds or fails.
send_notification(client) ==
    IF ~is_configured(client) \/ ~_split_service(client.notify_service).ok
    THEN {"failed"}
    ELSE {"sent", "failed"}

-----------------------------------------------------------------------------
(* storage.py *)

\* The content of a JSON document: a number, a string float() accepts
\* ("100.0"), any other string, null, an array, or an object given as the
\* sequence of its <<key, value>> members.
JNum(x) == [t |-> "num", n |-> x, items |-> <<>>]

JNumStr(x) == [t |-> "numstr", n |-> x, items |-> <<>>]

JStr == [t |-> "str", n |-> 0, items |-> <<>>]

JNull == [t |-> "null", n |-> 0, items |-> <<>>]

JList == [t |-> "list", n |-> 0, items |-> <<>>]

JObj(items) == [t |-> "obj", n |-> 0, items |-> items]

\* The content of STATE_PATH: no file, text that is not a JSON document
\* (an empty or cut-off file), or a JSON document.
FileMissing == [kind |-> "missing", root |-> JNull]

FilePartial == [kind |-> "partial", root |-> JNull]

FileJson(v) == [kind |-> "json", root |-> v]

\* The keys of a price map, in the order the loop visits them.
Keys(m) == SelectSeq(SymOrder, LAMBDA s : s \in DOMAIN m)

\* line 39 and 42: json.dump({"baselines": state.baselines}, ...)
json_dump_unwrapped(m) ==
    JObj([i \in 1..Len(Keys(m)) |-> <<Keys(m)[i], JNum(m[Keys(m)[i]])>>])

json_dump(m) ==
    JObj(<< <<"baselines",
              JObj([i \in 1..Len(Keys(m)) |->
                        <<Keys(m)[i], JNum(m[Keys(m)[i]])>>])>> >>)

\* The file after a save_state(m) that completed.
FileOf(m) == FileJson(json_dump(m))

\* save_state either writes the whole record, or raises: before the file is
\* opened (file untouched) or after open("w") truncated it (partial file).
save_state(m, old) ==
    { [raised |-> FALSE, file |-> FileOf(m)],
      [raised |-> TRUE, file |-> old],
      [raised |-> TRUE, file |-> FilePartial] }

\* lines 18-22: {} when the file does not exist, otherwise json.load, which
\* raises on text that is not a JSON document.
_load_json(f) ==
    IF f.kind = "missing" THEN [raised |-> FALSE, raw |-> JObj(<<>>)]
    ELSE IF f.kind = "partial" THEN [raised |-> TRUE, raw |-> JNull]
    ELSE [raised |-> FALSE, raw |-> f.root]

\* dict.get(key, default) on a parsed JSON object (of two members with the
\* same key json.load keeps the last)
DictGet(obj, key, default) ==
    LET at == {i \in 1..Len(obj.items) : obj.items[i][1] = key}
    IN  IF at = {} THEN default
        ELSE obj.items[CHOOSE i \in at : \A j \in at : j <= i][2]

\* str.upper on the keys used here
upper(k) == IF k = "a" THEN "A" ELSE IF k = "b" THEN "B" ELSE k

RECURSIVE Cleaned(_)
\* lines 29-34: float(value) accepts numbers and numeric strings; on any
\* other value it raises TypeError or ValueError and the entry is skipped.
Cleaned(items) ==
    IF items = <<>> THEN EmptyMap
    ELSE LET front == Cleaned(SubSeq(items, 1, Len(items) - 1))
             key == upper(items[Len(items)][1])
             value == items[Len(items)][2]
         IN  IF value.t \in {"num", "numstr"}
             THEN [k \in DOMAIN front \cup {key} |->
                      IF k = key THEN value.n ELSE front[k]]
             ELSE front

\* lines 25-35.  raw.get raises AttributeError when the document is not an
\* object; nothing in load_state or _load_json catches an exception.
load_state(f) ==
    LET j == _load_json(f)
    IN  IF j.raised \/ j.raw.t # "obj"
        THEN [raised |-> TRUE, baselines |-> EmptyMap]
        ELSE LET b == DictGet(j.raw, "baselines", JObj(<<>>))
             IN  [raised |-> FALSE,
                  baselines |-> IF b.t = "obj" THEN Cleaned(b.items)
                                ELSE EmptyMap]

-----------------------------------------------------------------------------
(* The variables of the function applications, while no application runs *)

\* A dict the web thread holds is an object of its own ("copy") or the very
\* object self._state.baselines ("state"); while it holds none, "none".
SnapNone == [id |-> "none", items |-> EmptyMap]

StoreIdle ==
    [stage |-> "idle", from |-> "none", x |-> EmptyMap, f0 |-> FileMissing,
     cur |-> EmptyMap, file |-> FileMissing, saves |-> 0, loads |-> 0]

SvcIdle ==
    [service |-> <<>>, ok |-> FALSE, domain |-> <<>>, name |-> <<>>,
     done |-> FALSE]

ProvIdle ==
    [stage |-> "idle", symbols |-> <<>>, symbol_list |-> <<>>, index |-> 0,
     prices |-> EmptyMap,
     sfx |-> 1, rest |-> <<>>, mapped |-> EmptyMap, returned |-> {},
     calls |-> <<>>, given |-> <<>>, rounds |-> <<>>]

\* No request of _fetch_prices_batch has been made; the first one goes to
\* the first host with delay = 2.0 (line 65).
ReqIdle ==
    [stage |-> "idle", url |-> 1, attempt |-> 0, delay |-> 2,
     header |-> [kind |-> "none", n |-> 0], prices |-> FALSE, log |-> <<>>]

\* lines 23-25: the module's globals before the first call, and no call made
YhIdle ==
    [stage |-> "idle", session |-> FALSE, crumb |-> 0, timestamp |-> 0,
     now |-> 0, local |-> 0, cached |-> FALSE, calls |-> 0, acquired |-> 0,
     log |-> <<>>]

-----------------------------------------------------------------------------
(* EtfMonitor: state after __init__ and start() *)

RECURSIVE Dedup(_)
\* list(dict.fromkeys(seq)): first occurrences, in order
Dedup(seq) ==
    IF seq = <<>> THEN <<>>
    ELSE LET front == Dedup(SubSeq(seq, 1, Len(seq) - 1))
             last == seq[Len(seq)]
         IN  IF \E i \in 1..Len(front) : front[i] = last THEN front
             ELSE Append(front, last)

Range(seq) == {seq[i] : i \in 1..Len(seq)}

Max(a, b) == IF a >= b THEN a ELSE b

LocInit ==
    [symbols |-> <<>>, threshold |-> Rat(0, 1), prices |-> EmptyMap,
     todo |-> <<>>, alerts |-> <<>>, pending |-> <<>>]

\* History of one cycle: how it ended, the gateway that was active when it
\* took its configuration snapshot, whether it called the price provider, how
\* often it called save_state, what each comparison saw, and every hand-over
\* of an alert to _notify.
CycInit ==
    [status |-> "none", client |-> HomeAssistantClient(EffectiveConfig(<<>>, Rat(0, 1), <<>>, "", <<>>, 0)),
     fetched |-> "no", saves |-> 0, obs |-> <<>>, attempts |-> <<>>]

InitFiles == {FileMissing, FileOf([s \in {"A", "B"} |-> 1000])}

Init ==
    /\ config \in Configs
    /\ haClient = HomeAssistantClient(config)
    /\ file \in InitFiles
    /\ baselines = load_state(file).baselines
    /\ lock = "free"
    /\ stopEvent = FALSE
    /\ pc = [t \in Threads |-> IF t = "timer" THEN "loop_check" ELSE "idle"]
    /\ loc = [t \in Threads |-> LocInit]
    /\ cyc = [t \in Threads |-> CycInit]
    /\ interval = 0
    /\ cycles = 0
    /\ updates = 0
    /\ snap = SnapNone
    /\ pcRef = 0 /\ pcCur = 0 /\ pcOut = Rat(0, 1) /\ pcDone = FALSE
    /\ store = StoreIdle
    /\ svc = SvcIdle
    /\ prov = ProvIdle
    /\ req = ReqIdle
    /\ yh = YhIdle

-----------------------------------------------------------------------------
(* EtfMonitor.run_once *)

\* threading.Lock: a thread enters a "with self._lock" block only when no
\* thread holds the lock.
LockIgnored(t) == TRUE

LockAvailable(t) == lock = "free"

\* A call of run_once by thread t begins.
EnterRunOnce(t) ==
    /\ cycles < MaxCycles
    /\ cycles' = cycles + 1
    /\ pc' = [pc EXCEPT ![t] = "ro_start"]
    /\ loc' = [loc EXCEPT ![t] = LocInit]
    /\ cyc' = [cyc EXCEPT ![t] = [CycInit EXCEPT !.status = "running"]]

\* lines 337-343: the configuration snapshot under the lock, then the
\* early return when no symbol is configured.
run_once_snapshot_always_fetches(t) ==
    /\ pc[t] = "ro_start"
    /\ LockAvailable(t)
    /\ loc' = [loc EXCEPT ![t].symbols = Dedup(config.etf_symbols),
                          ![t].threshold = config.threshold_percent]
    /\ cyc' = [cyc EXCEPT ![t].client = haClient]
    /\ pc' = [pc EXCEPT ![t] = "ro_fetch"]
    /\ UNCHANGED <<config, haClient, baselines, file, lock, stopEvent,
                   interval, cycles, updates, snap, pureVars>>

run_once_snapshot(t) ==
    /\ pc[t] = "ro_start"
    /\ LockAvailable(t)
    /\ LET symbols == Dedup(config.etf_symbols)
       IN  /\ loc' = [loc EXCEPT ![t].symbols = symbols,
                                 ![t].threshold = config.threshold_percent]
           /\ IF symbols = <<>>
              THEN /\ cyc' = [cyc EXCEPT ![t].client = haClient,
                                         ![t].status = "noop"]
                   /\ pc' = [pc EXCEPT ![t] = "ro_done"]
              ELSE /\ cyc' = [cyc EXCEPT ![t].client = haClient]
                   /\ pc' = [pc EXCEPT ![t] = "ro_fetch"]
    /\ UNCHANGED <<config, haClient, baselines, file, lock, stopEvent,
                   interval, cycles, updates, snap, pureVars>>

\* What the price provider can return for the requested symbols: a price
\* for any subset of them.
PriceMaps(symbols) ==
    UNION { {m \in [D -> Prices] : \A s \in D : m[s] \in Quotes[s]} :
            D \in SUBSET Range(symbols) }

\* lines 344-348: the provider raises; the exception is caught and the
\* cycle returns.
run_once_fetch_raises_uncaught(t) ==
    /\ pc[t] = "ro_fetch"
    /\ cyc' = [cyc EXCEPT ![t].fetched = "raised", ![t].status = "raised"]
    /\ pc' = [pc EXCEPT ![t] = "ro_done"]
    /\ UNCHANGED <<config, haClient, baselines, file, lock, stopEvent, loc,
                   interval, cycles, updates, snap, pureVars>>

run_once_fetch_raises(t) ==
    /\ pc[t] = "ro_fetch"
    /\ cyc' = [cyc EXCEPT ![t].fetched = "raised", ![t].status = "aborted"]
    /\ pc' = [pc EXCEPT ![t] = "ro_done"]
    /\ UNCHANGED <<config, haClient, baselines, file, lock, stopEvent, loc,
                   interval, cycles, updates, snap, pureVars>>

\* lines 345, 349-352: the provider returns a map; an empty one ends the
\* cycle.
run_once_fetch_returns(t, prices) ==
    /\ pc[t] = "ro_fetch"
    /\ prices \in PriceMaps(loc[t].symbols)
    /\ IF DOMAIN prices = {}
       THEN /\ cyc' = [cyc EXCEPT ![t].fetched = "empty", ![t].status = "aborted"]
            /\ pc' = [pc EXCEPT ![t] = "ro_done"]
            /\ loc' = loc
       ELSE /\ cyc' = [cyc EXCEPT ![t].fetched = "prices"]
            /\ pc' = [pc EXCEPT ![t] = "ro_lock"]
            /\ loc' = [loc EXCEPT ![t].prices = prices, ![t].todo = Keys(prices)]
    /\ UNCHANGED <<config, haClient, baselines, file, lock, stopEvent,
                   interval, cycles, updates, snap, pureVars>>

\* line 345: the call of the price provider that returns
run_once_fetch(t) ==
    \E prices \in PriceMaps(loc[t].symbols) : run_once_fetch_returns(t, prices)

\* line 353: "with self._lock" of the compare section
run_once_acquire(t) ==
    /\ pc[t] = "ro_lock"
    /\ LockAvailable(t)
    /\ lock' = t
    /\ pc' = [pc EXCEPT ![t] = "ro_compare"]
    /\ UNCHANGED <<config, haClient, baselines, file, stopEvent, loc, cyc,
                   interval, cycles, updates, snap, pureVars>>

\* line 360: the breach test
BreachStrict(change, threshold) == RatGt(RatAbs(change), threshold)

Breach(change, threshold) == RatGeq(RatAbs(change), threshold)

Put(m, s, p) == [x \in DOMAIN m \cup {s} |-> IF x = s THEN p ELSE m[x]]

\* lines 355-362: one iteration of the loop over prices.items(); the new
\* baselines and the alerts the iteration appends.
CompareOneAlertsOnSeed(bl, s, p, threshold) ==
    IF s \notin DOMAIN bl
    THEN [baselines |-> Put(bl, s, p), alerts |-> << <<s, p, p, Rat(0, 1)>> >>]
    ELSE LET change == percent_change(bl[s], p)
         IN  IF Breach(change, threshold)
             THEN [baselines |-> Put(bl, s, p),
                   alerts |-> << <<s, bl[s], p, change>> >>]
             ELSE [baselines |-> bl, alerts |-> <<>>]

CompareOneFollowsPrice(bl, s, p, threshold) ==
    IF s \notin DOMAIN bl
    THEN [baselines |-> Put(bl, s, p), alerts |-> <<>>]
    ELSE LET change == percent_change(bl[s], p)
         IN  IF Breach(change, threshold)
             THEN [baselines |-> Put(bl, s, p),
                   alerts |-> << <<s, bl[s], p, change>> >>]
             ELSE [baselines |-> Put(bl, s, p), alerts |-> <<>>]

CompareOne(bl, s, p, threshold) ==
    IF s \notin DOMAIN bl
    THEN [baselines |-> Put(bl, s, p), alerts |-> <<>>]
    ELSE LET change == percent_change(bl[s], p)
         IN  IF Breach(change, threshold)
             THEN [baselines |-> Put(bl, s, p),
                   alerts |-> << <<s, bl[s], p, change>> >>]
             ELSE [baselines |-> bl, alerts |-> <<>>]

run_once_compare_saves_each(t) ==
    /\ pc[t] = "ro_compare"
    /\ LET s == Head(loc[t].todo)
           p == loc[t].prices[s]
           had == s \in DOMAIN baselines
           r == CompareOne(baselines, s, p, loc[t].threshold)
           rest == Tail(loc[t].todo)
       IN  /\ baselines' = r.baselines
           /\ file' = FileOf(r.baselines)
           /\ loc' = [loc EXCEPT ![t].todo = rest,
                                 ![t].alerts = loc[t].alerts \o r.alerts]
           /\ cyc' = [cyc EXCEPT ![t].saves = cyc[t].saves + 1,
                         ![t].obs = Append(cyc[t].obs,
                         [symbol |-> s, had |-> had,
                          before |-> IF had THEN baselines[s] ELSE 0,
                          price |-> p, after |-> r.baselines[s]])]
           /\ pc' = [pc EXCEPT ![t] = IF rest = <<>> THEN "ro_save" ELSE "ro_compare"]
    /\ UNCHANGED <<config, haClient, lock, stopEvent,
                   interval, cycles, updates, snap, pureVars>>

run_once_compare(t) ==
    /\ pc[t] = "ro_compare"
    /\ LET s == Head(loc[t].todo)
           p == loc[t].prices[s]
           had == s \in DOMAIN baselines
           r == CompareOne(baselines, s, p, loc[t].threshold)
           rest == Tail(loc[t].todo)
       IN  /\ baselines' = r.baselines
           /\ loc' = [loc EXCEPT ![t].todo = rest,
                                 ![t].alerts = loc[t].alerts \o r.alerts]
           /\ cyc' = [cyc EXCEPT ![t].obs = Append(cyc[t].obs,
                         [symbol |-> s, had |-> had,
                          before |-> IF had THEN baselines[s] ELSE 0,
                          price |-> p, after |-> r.baselines[s]])]
           /\ pc' = [pc EXCEPT ![t] = IF rest = <<>> THEN "ro_save" ELSE "ro_compare"]
    /\ UNCHANGED <<config, haClient, file, lock, stopEvent,
                   interval, cycles, updates, snap, pureVars>>

\* line 363 and the end of the "with" block: save_state, then the lock is
\* released, also when save_state raises; the exception leaves run_once.
run_once_save_notifies_under_lock(t) ==
    /\ pc[t] = "ro_save"
    /\ \E r \in save_state(baselines, file) :
          /\ file' = r.file
          /\ IF r.raised
             THEN /\ cyc' = [cyc EXCEPT ![t].saves = cyc[t].saves + 1,
                                        ![t].status = "raised"]
                  /\ pc' = [pc EXCEPT ![t] = "ro_done"]
                  /\ loc' = loc
             ELSE IF loc[t].alerts = <<>>
             THEN /\ cyc' = [cyc EXCEPT ![t].saves = cyc[t].saves + 1,
                                        ![t].status = "returned"]
                  /\ pc' = [pc EXCEPT ![t] = "ro_done"]
                  /\ loc' = loc
             ELSE /\ cyc' = [cyc EXCEPT ![t].saves = cyc[t].saves + 1]
                  /\ pc' = [pc EXCEPT ![t] = "ro_notify"]
                  /\ loc' = [loc EXCEPT ![t].pending = loc[t].alerts]
    /\ lock' = IF pc'[t] = "ro_notify" THEN t ELSE "free"
    /\ UNCHANGED <<config, haClient, baselines, stopEvent,
                   interval, cycles, updates, snap, pureVars>>

run_once_save(t) ==
    /\ pc[t] = "ro_save"
    /\ \E r \in save_state(baselines, file) :
          /\ file' = r.file
          /\ IF r.raised
             THEN /\ cyc' = [cyc EXCEPT ![t].saves = cyc[t].saves + 1,
                                        ![t].status = "raised"]
                  /\ pc' = [pc EXCEPT ![t] = "ro_done"]
                  /\ loc' = loc
             ELSE IF loc[t].alerts = <<>>
             THEN /\ cyc' = [cyc EXCEPT ![t].saves = cyc[t].saves + 1,
                                        ![t].status = "returned"]
                  /\ pc' = [pc EXCEPT ![t] = "ro_done"]
                  /\ loc' = loc
             ELSE /\ cyc' = [cyc EXCEPT ![t].saves = cyc[t].saves + 1]
                  /\ pc' = [pc EXCEPT ![t] = "ro_notify"]
                  /\ loc' = [loc EXCEPT ![t].pending = loc[t].alerts]
    /\ lock' = "free"
    /\ UNCHANGED <<config, haClient, baselines, stopEvent,
                   interval, cycles, updates, snap, pureVars>>

-----------------------------------------------------------------------------
(* EtfMonitor._notify, called for the head of the alerts still to deliver *)

\* After the call of _notify for the current alert returned: the for loop
\* of line 364 goes on, or run_once returns.
NextAlert(t, attempt) ==
    LET rest == Tail(loc[t].pending)
    IN  /\ loc' = [loc EXCEPT ![t].pending = rest]
        /\ IF rest = <<>>
           THEN /\ cyc' = [cyc EXCEPT ![t].attempts = Append(cyc[t].attempts, attempt),
                                      ![t].status = "returned"]
                /\ pc' = [pc EXCEPT ![t] = "ro_done"]
           ELSE /\ cyc' = [cyc EXCEPT ![t].attempts = Append(cyc[t].attempts, attempt)]
                /\ pc' = [pc EXCEPT ![t] = "ro_notify"]

\* lines 374-376: self._ha_client is read (without the lock) and asked
\* whether it is configured; if not, the alert is logged and skipped.
_notify_check(t) ==
    /\ pc[t] = "ro_notify"
    /\ IF is_configured(haClient)
       THEN /\ pc' = [pc EXCEPT ![t] = "ro_send"]
            /\ UNCHANGED <<loc, cyc>>
       ELSE NextAlert(t, [symbol |-> Head(loc[t].pending)[1],
                          client |-> haClient, result |-> "skipped"])
    /\ UNCHANGED <<config, haClient, baselines, file, lock, stopEvent,
                   interval, cycles, updates, snap, pureVars>>

\* lines 377-381: self._ha_client is read again and send_notification is
\* called on it; whatever it raises is caught and logged.
_notify_send_uncaught(t) ==
    /\ pc[t] = "ro_send"
    /\ \E r \in send_notification(haClient) :
          LET attempt == [symbol |-> Head(loc[t].pending)[1],
                          client |-> haClient, result |-> r]
          IN  IF r = "failed"
              THEN /\ cyc' = [cyc EXCEPT ![t].attempts = Append(cyc[t].attempts, attempt),
                                         ![t].status = "raised"]
                   /\ pc' = [pc EXCEPT ![t] = "ro_done"]
                   /\ loc' = loc
              ELSE NextAlert(t, attempt)
    /\ UNCHANGED <<config, haClient, baselines, file, lock, stopEvent,
                   interval, cycles, updates, snap, pureVars>>

_notify_send(t) ==
    /\ pc[t] = "ro_send"
    /\ \E r \in send_notification(haClient) :
          NextAlert(t, [symbol |-> Head(loc[t].pending)[1],
                        client |-> haClient, result |-> r])
    /\ UNCHANGED <<config, haClient, baselines, file, lock, stopEvent,
                   interval, cycles, updates, snap, pureVars>>

\* run_once is left.  In _run_loop an exception ends the thread (nothing
\* catches it); in a Flask route it ends the request.
run_once_return(t) ==
    /\ pc[t] = "ro_done"
    /\ pc' = [pc EXCEPT ![t] =
                 IF t = "web" THEN "idle"
                 ELSE IF cyc[t].status = "raised" THEN "dead"
                 ELSE "loop_interval"]
    /\ loc' = [loc EXCEPT ![t] = LocInit]
    /\ cyc' = [cyc EXCEPT ![t] = CycInit]
    /\ UNCHANGED <<config, haClient, baselines, file, lock, stopEvent,
                   interval, cycles, updates, snap, pureVars>>

-----------------------------------------------------------------------------
(* EtfMonitor._run_loop, stop, update_config; the routes of main.py *)

\* line 384-385: the loop condition, then the call of run_once
_run_loop_check_ignores_stop ==
    /\ pc["timer"] = "loop_check"
    /\ EnterRunOnce("timer")
    /\ UNCHANGED <<config, haClient, baselines, file, lock, stopEvent,
                   interval, updates, snap, pureVars>>

_run_loop_check ==
    /\ pc["timer"] = "loop_check"
    /\ IF stopEvent
       THEN /\ pc' = [pc EXCEPT !["timer"] = "exited"]
            /\ UNCHANGED <<loc, cyc, cycles>>
       ELSE EnterRunOnce("timer")
    /\ UNCHANGED <<config, haClient, baselines, file, lock, stopEvent,
                   interval, updates, snap, pureVars>>

\* lines 386-387
_run_loop_interval_unfloored ==
    /\ pc["timer"] = "loop_interval"
    /\ LockAvailable("timer")
    /\ interval' = config.poll_interval_seconds
    /\ pc' = [pc EXCEPT !["timer"] = "loop_wait"]
    /\ UNCHANGED <<config, haClient, baselines, file, lock, stopEvent, loc,
                   cyc, cycles, updates, snap, pureVars>>

_run_loop_interval ==
    /\ pc["timer"] = "loop_interval"
    /\ LockAvailable("timer")
    /\ interval' = Max(config.poll_interval_seconds, 60)
    /\ pc' = [pc EXCEPT !["timer"] = "loop_wait"]
    /\ UNCHANGED <<config, haClient, baselines, file, lock, stopEvent, loc,
                   cyc, cycles, updates, snap, pureVars>>

\* line 388, Event.wait(interval) returns because the interval elapsed
_run_loop_wait_timeout ==
    /\ pc["timer"] = "loop_wait"
    /\ pc' = [pc EXCEPT !["timer"] = "loop_check"]
    /\ UNCHANGED <<config, haClient, baselines, file, lock, stopEvent, loc,
                   cyc, interval, cycles, updates, snap, pureVars>>

\* line 388, Event.wait(interval) returns because the event is set (at once
\* when it was set before the call)
_run_loop_wait_set ==
    /\ pc["timer"] = "loop_wait"
    /\ stopEvent
    /\ pc' = [pc EXCEPT !["timer"] = "loop_check"]
    /\ UNCHANGED <<config, haClient, baselines, file, lock, stopEvent, loc,
                   cyc, interval, cycles, updates, snap, pureVars>>

\* line 388: the wait ends when the interval elapsed or the event is set
_run_loop_wait == _run_loop_wait_timeout \/ _run_loop_wait_set

\* lines 331-334: the event is set; join(timeout=5) then returns when the
\* thread has ended or the five seconds are over, whichever comes first, so
\* the call returns whatever the thread is doing
stop ==
    /\ ~stopEvent
    /\ stopEvent' = TRUE
    /\ UNCHANGED <<config, haClient, baselines, file, lock, pc, loc, cyc,
                   interval, cycles, updates, snap, pureVars>>

\* line 311, dict(self._state.baselines): a new dict with the same items
dict_same(m) == [id |-> "state", items |-> m]

dict(m) == [id |-> "copy", items |-> m]

\* lines 308-311, called by the routes / and /api/config (GET): under the
\* lock, a copy of the baselines
state ==
    /\ pc["web"] = "idle"
    /\ LockAvailable("web")
    /\ snap' = dict(baselines)
    /\ pc' = [pc EXCEPT !["web"] = "state_read"]
    /\ UNCHANGED <<config, haClient, baselines, file, lock, stopEvent, loc,
                   cyc, interval, cycles, updates, pureVars>>

\* The caller of EtfMonitor.state assigns to an item of the dict it got
\* (state.baselines["A"] = 0); the monitor's record changes with it exactly
\* when the dict is the monitor's own object.
state_mutate ==
    /\ pc["web"] = "state_read"
    /\ snap' = [snap EXCEPT !.items = Put(snap.items, "A", 0)]
    /\ baselines' = IF snap.id = "state" THEN Put(baselines, "A", 0)
                    ELSE baselines
    /\ pc' = [pc EXCEPT !["web"] = "state_mutated"]
    /\ UNCHANGED <<config, haClient, file, lock, stopEvent, loc,
                   cyc, interval, cycles, updates, pureVars>>

\* The route that read the state has built its response.
state_return ==
    /\ pc["web"] \in {"state_read", "state_mutated"}
    /\ snap' = SnapNone
    /\ pc' = [pc EXCEPT !["web"] = "idle"]
    /\ UNCHANGED <<config, haClient, baselines, file, lock, stopEvent, loc,
                   cyc, interval, cycles, updates, pureVars>>

\* The process ends at any moment and is started again: main.py lines 25-26
\* construct the monitor (etf_monitor.py lines 295-306: load_state, a new
\* lock and event, the gateway of the persisted configuration) and start
\* its thread.  When load_state raises, the import of main.py fails and no
\* thread runs.
restart ==
    /\ LET r == load_state(file)
       IN  /\ baselines' = r.baselines
           /\ pc' = [t \in Threads |->
                        IF r.raised THEN "crashed"
                        ELSE IF t = "timer" THEN "loop_check" ELSE "idle"]
    /\ haClient' = HomeAssistantClient(config)
    /\ lock' = "free"
    /\ stopEvent' = FALSE
    /\ loc' = [t \in Threads |-> LocInit]
    /\ cyc' = [t \in Threads |-> CycInit]
    /\ interval' = 0
    /\ snap' = SnapNone
    /\ UNCHANGED <<config, file, cycles, updates, pureVars>>

\* main.py, POST /api/poll
trigger_poll ==
    /\ pc["web"] = "idle"
    /\ EnterRunOnce("web")
    /\ UNCHANGED <<config, haClient, baselines, file, lock, stopEvent,
                   interval, updates, snap, pureVars>>

\* main.py, POST /api/config, first call: MONITOR.update_config(c)
\* (etf_monitor.py lines 313-320, under the lock)
update_config(c) ==
    /\ pc["web"] = "idle"
    /\ updates < MaxUpdates
    /\ LockAvailable("web")
    /\ config' = c
    /\ haClient' = HomeAssistantClient(c)
    /\ updates' = updates + 1
    /\ pc' = [pc EXCEPT !["web"] = "updated"]
    /\ UNCHANGED <<baselines, file, lock, stopEvent, loc, cyc, interval,
                   cycles, snap, pureVars>>

\* main.py, POST /api/config, second call: MONITOR.run_once()
update_config_poll ==
    /\ pc["web"] = "updated"
    /\ EnterRunOnce("web")
    /\ UNCHANGED <<config, haClient, baselines, file, lock, stopEvent,
                   interval, updates, snap, pureVars>>

-----------------------------------------------------------------------------

Next ==
    \/ \E t \in Threads : run_once_snapshot(t)
    \/ \E t \in Threads : run_once_fetch_raises(t)
    \/ \E t \in Threads : run_once_fetch(t)
    \/ \E t \in Threads : run_once_acquire(t)
    \/ \E t \in Threads : run_once_compare(t)
    \/ \E t \in Threads : run_once_save(t)
    \/ \E t \in Threads : _notify_check(t)
    \/ \E t \in Threads : _notify_send(t)
    \/ \E t \in Threads : run_once_return(t)
    \/ _run_loop_check
    \/ _run_loop_interval
    \/ _run_loop_wait_timeout
    \/ _run_loop_wait_set
    \/ stop
    \/ state
    \/ state_mutate
    \/ state_return
    \/ restart
    \/ trigger_poll
    \/ \E c \in Configs : update_config(c)
    \/ update_config_poll

Spec == Init /\ [][Next]_vars

-----------------------------------------------------------------------------
(* percent_change applied to a pair of inputs *)

PcInputs == {-100, -3, 0, 1, 3, 100, 103, 110}

PureInit ==
    /\ config = EffectiveConfig(<<>>, Rat(2, 1), Url, "", ServiceSlash, 300)
    /\ haClient = HomeAssistantClient(config)
    /\ file = FileMissing
    /\ baselines = load_state(file).baselines
    /\ lock = "free"
    /\ stopEvent = FALSE
    /\ pc = [t \in Threads |-> IF t = "timer" THEN "loop_check" ELSE "idle"]
    /\ loc = [t \in Threads |-> LocInit]
    /\ cyc = [t \in Threads |-> CycInit]
    /\ interval = 0
    /\ cycles = 0
    /\ updates = 0
    /\ snap = SnapNone
    /\ pcRef \in PcInputs
    /\ pcCur \in PcInputs
    /\ pcOut = Rat(0, 1)
    /\ pcDone = FALSE
    /\ store = StoreIdle
    /\ svc = SvcIdle
    /\ prov = ProvIdle
    /\ req = ReqIdle
    /\ yh = YhIdle

ApplyPercentChange ==
    /\ ~pcDone
    /\ pcOut' = percent_change(pcRef, pcCur)
    /\ pcDone' = TRUE
    /\ UNCHANGED <<monVars, pcRef, pcCur, store, svc, prov, req, yh>>

PureNext == ApplyPercentChange

SpecPure == PureInit /\ [][PureNext]_vars

-----------------------------------------------------------------------------
(* save_state and load_state applied to records and to files *)

MaxSaves == 2

\* The monitor before its thread has taken a step, with nothing configured.
MonitorIdle ==
    /\ config = EffectiveConfig(<<>>, Rat(2, 1), Url, "", ServiceSlash, 300)
    /\ haClient = HomeAssistantClient(config)
    /\ file = FileMissing
    /\ baselines = load_state(file).baselines
    /\ lock = "free"
    /\ stopEvent = FALSE
    /\ pc = [t \in Threads |-> IF t = "timer" THEN "loop_check" ELSE "idle"]
    /\ loc = [t \in Threads |-> LocInit]
    /\ cyc = [t \in Threads |-> CycInit]
    /\ interval = 0
    /\ cycles = 0
    /\ updates = 0
    /\ snap = SnapNone

\* Valid records: uppercase symbols mapped to prices.
ValidRecords == UNION {[D -> Prices] : D \in SUBSET Symbols}

\* Members a JSON object can give to a symbol, and the objects of at most
\* two members with different keys.
StoreKeys == {"A", "B", "a"}

StoreValues == {JNum(1000), JNumStr(1020), JStr, JNull}

StoreObjects ==
    {<<>>} \cup {<< <<k, v>> >> : k \in StoreKeys, v \in StoreValues}
           \cup {<< <<ks[1], v1>>, <<ks[2], v2>> >> :
                     ks \in {q \in StoreKeys \X StoreKeys : q[1] # q[2]},
                     v1 \in StoreValues, v2 \in StoreValues}

\* Files load_state can meet: none, text that is no JSON document, documents
\* that are no object, objects without "baselines" or whose "baselines" is
\* no object, and objects of the expected shape.
StoreFiles ==
    {FileMissing, FilePartial, FileJson(JList), FileJson(JNum(1000)),
     FileJson(JNull), FileJson(JObj(<<>>)),
     FileJson(JObj(<< <<"baselines", JList>> >>)),
     FileJson(JObj(<< <<"baselines", JNull>> >>))}
      \cup {FileJson(JObj(<< <<"baselines", JObj(items)>> >>)) :
               items \in StoreObjects}

StorageInit ==
    /\ MonitorIdle
    /\ pcRef = 0 /\ pcCur = 0 /\ pcOut = Rat(0, 1) /\ pcDone = FALSE
    /\ svc = SvcIdle
    /\ prov = ProvIdle
    /\ req = ReqIdle
    /\ yh = YhIdle
    /\ \/ \E x \in ValidRecords :
             store = [StoreIdle EXCEPT !.stage = "record", !.from = "record",
                                       !.x = x, !.cur = x]
       \/ \E f \in StoreFiles :
             store = [StoreIdle EXCEPT !.stage = "file", !.from = "file",
                                       !.f0 = f, !.file = f]

\* save_state(cur) that completes
StorageSave ==
    /\ store.stage = "record"
    /\ store.saves < MaxSaves
    /\ \E r \in save_state(store.cur, store.file) :
          /\ ~r.raised
          /\ store' = [store EXCEPT !.stage = "file", !.file = r.file,
                                    !.saves = store.saves + 1]
    /\ UNCHANGED <<monVars, pcRef, pcCur, pcOut, pcDone, svc, prov, req, yh>>

\* cur = load_state()
StorageLoad ==
    /\ store.stage = "file"
    /\ LET r == load_state(store.file)
       IN  store' = [store EXCEPT
                        !.stage = IF r.raised THEN "raised" ELSE "record",
                        !.cur = r.baselines,
                        !.loads = store.loads + 1]
    /\ UNCHANGED <<monVars, pcRef, pcCur, pcOut, pcDone, svc, prov, req, yh>>

StorageNext == StorageSave \/ StorageLoad

SpecStorage == StorageInit /\ [][StorageNext]_vars

-----------------------------------------------------------------------------
(* default_price_provider and the providers it consults.  Symbols are        *)
(* sequences of characters; each provider answers with its own price so     *)
(* that the origin of a price in the result is visible.                     *)

batch_size == 5

PrimaryPrice == 101

CrumbPrice == 102

StooqPrice == 103

\* the price Stooq quotes for a candidate with the i-th suffix
SuffixPrice(i) == 110 + i

Suffixes == << <<".", "M", "I">>, <<".", "D", "E">>, <<".", "P", "A">>,
               <<".", "L">> >>

\* str.upper and str.strip on the characters used here
upper_char(ch) == IF ch = "x" THEN "X" ELSE IF ch = "y" THEN "Y" ELSE ch

RECURSIVE strip(_)
strip(s) ==
    IF s # <<>> /\ s[1] = " " THEN strip(Tail(s))
    ELSE IF s # <<>> /\ s[Len(s)] = " " THEN strip(SubSeq(s, 1, Len(s) - 1))
    ELSE s

\* str.upper on a symbol
UpperSym(sym) == [j \in 1..Len(sym) |-> upper_char(sym[j])]

\* line 248
Normalize(symbols) ==
    LET kept == SelectSeq(symbols, LAMBDA sym : sym # <<>>)
    IN  [i \in 1..Len(kept) |-> UpperSym(strip(kept[i]))]

\* lines 258, 262, 266, 275
MissingAll(symbol_list, prices) == symbol_list

Missing(symbol_list, prices) ==
    SelectSeq(symbol_list, LAMBDA sym : sym \notin DOMAIN prices)

\* dict.update
Update(prices, more) ==
    [sym \in DOMAIN prices \cup DOMAIN more |->
        IF sym \in DOMAIN more THEN more[sym] ELSE prices[sym]]

\* What a call of one of the two quote-API providers meets: every request
\* fails (timeout, HTTP error, 429 to the end, 401 on each host), or the
\* last response has status 200 and a body that is no JSON document of the
\* expected shape, or one that quotes some of the requested symbols.
YahooResponses(symbols, price) ==
    {[kind |-> "failed", prices |-> EmptyMap],
     [kind |-> "badbody", prices |-> EmptyMap]}
      \cup {[kind |-> "ok", prices |-> [sym \in D |-> price]] :
               D \in SUBSET Range(symbols)}

\* lines 53-99: request exceptions are caught (lines 82-87); response.json()
\* and the payload.get chain (lines 88-89) run after the try block
_fetch_prices_batch(symbols, r) ==
    IF r.kind = "failed" THEN [raised |-> FALSE, prices |-> EmptyMap]
    ELSE IF r.kind = "badbody" THEN [raised |-> TRUE, prices |-> EmptyMap]
    ELSE [raised |-> FALSE, prices |-> r.prices]

\* lines 102-185, the same shape (lines 168-175)
_fetch_prices_yahoo_with_crumb(symbols, r) ==
    IF symbols = <<>> \/ r.kind = "failed"
    THEN [raised |-> FALSE, prices |-> EmptyMap]
    ELSE IF r.kind = "badbody" THEN [raised |-> TRUE, prices |-> EmptyMap]
    ELSE [raised |-> FALSE, prices |-> r.prices]

\* What the CSV provider meets, one request per symbol: a row with a close
\* value, no usable row, or a failed request.
StooqResponses(symbols) == [1..Len(symbols) -> {"price", "norow", "error"}]

RECURSIVE StooqLoop(_, _, _, _, _)
\* lines 198-212: the loop over the symbols, inside the try block
StooqLoop(symbols, rs, price, i, prices) ==
    IF i > Len(symbols) THEN [failed |-> FALSE, prices |-> prices]
    ELSE IF rs[i] = "error" THEN [failed |-> TRUE, prices |-> prices]
    ELSE IF rs[i] = "price"
    THEN StooqLoop(symbols, rs, price, i + 1,
                   Update(prices, [sym \in {UpperSym(symbols[i])} |-> price]))
    ELSE StooqLoop(symbols, rs, price, i + 1, prices)

\* lines 188-219: a failed request makes the whole call return {}
_fetch_prices_stooq(symbols, rs, price) ==
    IF symbols = <<>> THEN EmptyMap
    ELSE LET r == StooqLoop(symbols, rs, price, 1, EmptyMap)
         IN  IF r.failed THEN EmptyMap ELSE r.prices

\* The symbols for which the CSV provider answered with a close value
\* during a call (requests after a failed one are not made).
StooqQuoted(symbols, rs) ==
    {symbols[i] : i \in {k \in 1..Len(symbols) :
                            /\ rs[k] = "price"
                            /\ \A j \in 1..k : rs[j] # "error"}}

\* line 229: "." in symbol
NeverHasDot(symbol) == FALSE

HasDot(symbol) == "." \in Range(symbol)

Min(a, b) == IF a <= b THEN a ELSE b

\* The symbol lists default_price_provider is called with: upper and lower
\* case, padded, empty, with and without an exchange suffix.
ProvInputs ==
    { <<>>, << <<>> >>, << <<"X">> >>, << <<" ", "x">>, <<"Y">> >>,
      << <<"X">>, <<"Z", ".", "L">> >>, << <<"Z", ".", "L">> >> }

ProvInit ==
    /\ MonitorIdle
    /\ pcRef = 0 /\ pcCur = 0 /\ pcOut = Rat(0, 1) /\ pcDone = FALSE
    /\ store = StoreIdle
    /\ svc = SvcIdle
    /\ req = ReqIdle
    /\ yh = YhIdle
    /\ \E symbols \in ProvInputs :
          prov = [ProvIdle EXCEPT !.stage = "start", !.symbols = symbols]

\* lines 248-251
default_price_provider_start ==
    /\ prov.stage = "start"
    /\ LET symbol_list == Normalize(prov.symbols)
       IN  prov' = [prov EXCEPT
                       !.symbol_list = symbol_list,
                       !.stage = IF symbol_list = <<>> THEN "done" ELSE "batch"]
    /\ UNCHANGED <<monVars, pcRef, pcCur, pcOut, pcDone, store, svc, req, yh>>

\* lines 253-258: one round of the loop over the batches
default_price_provider_batch ==
    /\ prov.stage = "batch"
    /\ LET last == Min(prov.index + batch_size, Len(prov.symbol_list))
           batch == SubSeq(prov.symbol_list, prov.index + 1, last)
       IN  \E r \in YahooResponses(batch, PrimaryPrice) :
              LET res == _fetch_prices_batch(batch, r)
              IN  prov' = [prov EXCEPT
                      !.prices = Update(prov.prices, res.prices),
                      !.returned = prov.returned \cup DOMAIN r.prices,
                      !.calls = Append(prov.calls,
                                   [provider |-> "primary", symbols |-> batch,
                                    had |-> DOMAIN prov.prices]),
                      !.index = prov.index + batch_size,
                      !.stage = IF res.raised THEN "raised"
                                ELSE IF prov.index + batch_size
                                          < Len(prov.symbol_list)
                                THEN "batch" ELSE "crumb"]
    /\ UNCHANGED <<monVars, pcRef, pcCur, pcOut, pcDone, store, svc, req, yh>>

\* lines 259-262
default_price_provider_crumb ==
    /\ prov.stage = "crumb"
    /\ LET missing == Missing(prov.symbol_list, prov.prices)
       IN  IF missing = <<>>
           THEN prov' = [prov EXCEPT !.stage = "stooq"]
           ELSE \E r \in YahooResponses(missing, CrumbPrice) :
                   LET res == _fetch_prices_yahoo_with_crumb(missing, r)
                   IN  prov' = [prov EXCEPT
                           !.prices = Update(prov.prices, res.prices),
                           !.returned = prov.returned \cup DOMAIN r.prices,
                           !.calls = Append(prov.calls,
                                        [provider |-> "crumb",
                                         symbols |-> missing,
                                         had |-> DOMAIN prov.prices]),
                           !.stage = IF res.raised THEN "raised" ELSE "stooq"]
    /\ UNCHANGED <<monVars, pcRef, pcCur, pcOut, pcDone, store, svc, req, yh>>

\* lines 263-266, and the symbols handed to the suffix fallback (line 274)
default_price_provider_stooq ==
    /\ prov.stage = "stooq"
    /\ LET missing == Missing(prov.symbol_list, prov.prices)
       IN  IF missing = <<>>
           THEN prov' = [prov EXCEPT !.stage = "suffix"]
           ELSE \E rs \in StooqResponses(missing) :
                   LET prices == Update(prov.prices,
                                    _fetch_prices_stooq(missing, rs, StooqPrice))
                   IN  prov' = [prov EXCEPT
                           !.prices = prices,
                           !.returned = prov.returned
                                          \cup StooqQuoted(missing, rs),
                           !.calls = Append(prov.calls,
                                        [provider |-> "stooq",
                                         symbols |-> missing,
                                         had |-> DOMAIN prov.prices]),
                           !.rest = Missing(prov.symbol_list, prices),
                           !.given = Missing(prov.symbol_list, prices),
                           !.stage = "suffix"]
    /\ UNCHANGED <<monVars, pcRef, pcCur, pcOut, pcDone, store, svc, req, yh>>

\* lines 228-241: one round of the loop over the suffixes
_fetch_prices_with_suffixes_loop ==
    /\ prov.stage = "suffix"
    /\ prov.rest # <<>>
    /\ prov.sfx <= Len(Suffixes)
    /\ LET originals == SelectSeq(prov.rest, LAMBDA sym : ~HasDot(sym))
           lookup == [i \in 1..Len(originals) |->
                         originals[i] \o Suffixes[prov.sfx]]
           key(i) == UpperSym(lookup[i])
       IN  IF originals = <<>>
           THEN prov' = [prov EXCEPT !.sfx = prov.sfx + 1]
           ELSE \E rs \in StooqResponses(lookup) :
                   LET fetched == _fetch_prices_stooq(lookup, rs,
                                                      SuffixPrice(prov.sfx))
                       found == {i \in 1..Len(originals) :
                                    /\ originals[i] \notin DOMAIN prov.mapped
                                    /\ key(i) \in DOMAIN fetched}
                       mapped == Update(prov.mapped,
                                    [sym \in {originals[i] : i \in found} |->
                                        SuffixPrice(prov.sfx)])
                       quoted == StooqQuoted(lookup, rs)
                   IN  prov' = [prov EXCEPT
                           !.mapped = mapped,
                           !.returned = prov.returned \cup
                               {originals[i] : i \in
                                   {k \in 1..Len(originals) :
                                       lookup[k] \in quoted}},
                           !.calls = Append(prov.calls,
                                        [provider |-> "suffix",
                                         symbols |-> originals,
                                         had |-> DOMAIN prov.prices]),
                           !.rounds = Append(prov.rounds,
                                         [sfx |-> prov.sfx,
                                          originals |-> originals,
                                          lookup |-> lookup,
                                          fetched |-> DOMAIN fetched,
                                          had |-> DOMAIN prov.mapped]),
                           !.rest = SelectSeq(prov.rest,
                                       LAMBDA sym : sym \notin DOMAIN mapped),
                           !.sfx = prov.sfx + 1]
    /\ UNCHANGED <<monVars, pcRef, pcCur, pcOut, pcDone, store, svc, req, yh>>

\* lines 242 and 274-278: the suffix fallback returns what it mapped, the
\* result is merged and returned
default_price_provider_return ==
    /\ prov.stage = "suffix"
    /\ prov.rest = <<>> \/ prov.sfx > Len(Suffixes)
    /\ prov' = [prov EXCEPT !.prices = Update(prov.prices, prov.mapped),
                            !.stage = "done"]
    /\ UNCHANGED <<monVars, pcRef, pcCur, pcOut, pcDone, store, svc, req, yh>>

ProvNext ==
    \/ default_price_provider_start
    \/ default_price_provider_batch
    \/ default_price_provider_crumb
    \/ default_price_provider_stooq
    \/ _fetch_prices_with_suffixes_loop
    \/ default_price_provider_return

SpecProvider == ProvInit /\ [][ProvNext]_vars

-----------------------------------------------------------------------------
(* _split_service applied to a service id *)

MaxServiceLen == 3

ServiceChars == {"n", "x", "/", "."}

ServiceIds == UNION {[1..n -> ServiceChars] : n \in 0..MaxServiceLen}

SplitInit ==
    /\ MonitorIdle
    /\ pcRef = 0 /\ pcCur = 0 /\ pcOut = Rat(0, 1) /\ pcDone = FALSE
    /\ store = StoreIdle
    /\ prov = ProvIdle
    /\ req = ReqIdle
    /\ yh = YhIdle
    /\ \E service \in ServiceIds : svc = [SvcIdle EXCEPT !.service = service]

ApplySplitService ==
    /\ ~svc.done
    /\ LET r == _split_service(svc.service)
       IN  svc' = [svc EXCEPT !.ok = r.ok, !.domain = r.domain,
                              !.name = r.svc, !.done = TRUE]
    /\ UNCHANGED <<monVars, pcRef, pcCur, pcOut, pcDone, store, prov, req, yh>>

SplitNext == ApplySplitService

SpecSplit == SplitInit /\ [][SplitNext]_vars

-----------------------------------------------------------------------------
(* _fetch_prices_batch, request by request (lines 59-87): the two hosts, the *)
(* three attempts on each, and the wait after a 429.                        *)

\* The value of a Retry-After header: none, the empty string, text float()
\* accepts (n seconds), an HTTP date n seconds from now, or other text.
HdrNone == [kind |-> "none", n |-> 0]

RetryAfterHeaders ==
    {HdrNone, [kind |-> "empty", n |-> 0], [kind |-> "garbage", n |-> 0],
     [kind |-> "seconds", n |-> 0], [kind |-> "seconds", n |-> 5],
     [kind |-> "seconds", n |-> -1],
     [kind |-> "date", n |-> 7], [kind |-> "date", n |-> -7]}

\* What requests.get meets: a status, or an exception of requests ("exc").
Statuses == {"200", "401", "429", "500", "exc"}

None == [some |-> FALSE, v |-> 0]

Some(v) == [some |-> TRUE, v |-> v]

\* lines 28-42
_retry_after_seconds(value) ==
    IF value.kind \in {"none", "empty"} THEN None
    ELSE IF value.kind = "seconds" THEN Some(value.n)
    ELSE IF value.kind = "date" THEN Some(Max(value.n, 0))
    ELSE None

\* lines 46-48: the delay _sleep_for_retry_after hands to time.sleep
SleepDelay(retry_after, fallback_delay) ==
    LET delay == _retry_after_seconds(retry_after)
    IN  IF delay.some THEN delay.v ELSE fallback_delay

LogEntry(ev, status, header, d) ==
    [ev |-> ev, url |-> req.url, attempt |-> req.attempt, status |-> status,
     header |-> header, d |-> d]

RetryInit ==
    /\ MonitorIdle
    /\ pcRef = 0 /\ pcCur = 0 /\ pcOut = Rat(0, 1) /\ pcDone = FALSE
    /\ store = StoreIdle
    /\ svc = SvcIdle
    /\ prov = ProvIdle
    /\ yh = YhIdle
    /\ req = [ReqIdle EXCEPT !.stage = "get"]

\* lines 67-81: one request and what its status leads to.  A 429 on the
\* first or second attempt leads to the wait; a 401 to the next host, or,
\* on the last, to the HTTPError that line 85 catches; any other failure
\* (a 429 on the third attempt among them) is raised by requests.get or
\* raise_for_status and caught by line 85; a 200 leaves both loops.
_fetch_prices_batch_get ==
    /\ req.stage = "get"
    /\ \E status \in Statuses :
       \E header \in IF status = "429" /\ req.attempt < 2
                      THEN RetryAfterHeaders ELSE {HdrNone} :
          LET log == Append(req.log, LogEntry("get", status, header, 0))
          IN  IF status = "429" /\ req.attempt < 2
              THEN req' = [req EXCEPT !.log = log, !.header = header,
                                      !.stage = "sleep"]
              ELSE IF status = "401" /\ req.url < 2
              THEN req' = [req EXCEPT !.log = log, !.url = req.url + 1,
                                      !.attempt = 0, !.delay = 2]
              ELSE IF status = "200"
              THEN req' = [req EXCEPT !.log = log, !.prices = TRUE,
                                      !.stage = "returned"]
              ELSE req' = [req EXCEPT !.log = log, !.stage = "returned"]
    /\ UNCHANGED <<monVars, pcRef, pcCur, pcOut, pcDone, store, svc, prov, yh>>

\* lines 69-71 and 45-50: the wait before the next attempt.  time.sleep
\* raises ValueError on a negative delay, and no except clause of
\* _fetch_prices_batch catches a ValueError.
_sleep_for_retry_after ==
    /\ req.stage = "sleep"
    /\ LET delay == SleepDelay(req.header, req.delay)
       IN  IF delay < 0
           THEN req' = [req EXCEPT !.stage = "raised"]
           ELSE req' = [req EXCEPT
                           !.log = Append(req.log,
                                      LogEntry("sleep", "", req.header, delay)),
                           !.delay = req.delay * 2,
                           !.attempt = req.attempt + 1,
                           !.stage = "get"]
    /\ UNCHANGED <<monVars, pcRef, pcCur, pcOut, pcDone, store, svc, prov, yh>>

RetryNext == _fetch_prices_batch_get \/ _sleep_for_retry_after

SpecRetry == RetryInit /\ [][RetryNext]_vars

-----------------------------------------------------------------------------
(* _fetch_prices_yahoo_with_crumb and the crumb it keeps in the module's     *)
(* globals, over several calls with time passing between them.  A crumb is  *)
(* named by the number of the getcrumb request that obtained it.            *)

_YAHOO_CRUMB_TTL_SECONDS == 1800

MaxCalls == 3

MaxNow == 4500

\* time.monotonic() at the start, and the time that passes in one step
ClockStart == 900

ClockStep == 900

CrumbInit ==
    /\ MonitorIdle
    /\ pcRef = 0 /\ pcCur = 0 /\ pcOut = Rat(0, 1) /\ pcDone = FALSE
    /\ store = StoreIdle
    /\ svc = SvcIdle
    /\ prov = ProvIdle
    /\ req = ReqIdle
    /\ yh = [YhIdle EXCEPT !.now = ClockStart]

\* Time passes between two calls.
TimePasses ==
    /\ yh.stage = "idle"
    /\ yh.now + ClockStep <= MaxNow
    /\ yh' = [yh EXCEPT !.now = yh.now + ClockStep]
    /\ UNCHANGED <<monVars, pcRef, pcCur, pcOut, pcDone, store, svc, prov, req>>

\* lines 116-132 and 168-174: the session is created on the first call (it
\* stays in the global also when its cookie request raises), then the quote
\* request without crumb: answered (the call returns its prices), failed
\* (the call returns {}), or refused with 401 or 429 (a crumb is needed).
_fetch_prices_yahoo_with_crumb_open ==
    /\ yh.stage = "idle"
    /\ yh.calls < MaxCalls
    /\ \E outcome \in {"cookie_failed", "ok", "failed", "needs"} :
          /\ outcome = "cookie_failed" => ~yh.session
          /\ yh' = [yh EXCEPT !.session = TRUE,
                              !.calls = yh.calls + 1,
                              !.stage = IF outcome = "needs" THEN "crumb"
                                        ELSE "idle"]
    /\ UNCHANGED <<monVars, pcRef, pcCur, pcOut, pcDone, store, svc, prov, req>>

\* line 134-138: the cached crumb is used when there is one, its timestamp
\* is set and it is younger than the TTL
CrumbFresh(now) ==
    /\ yh.crumb # 0
    /\ yh.timestamp # 0
    /\ now - yh.timestamp < _YAHOO_CRUMB_TTL_SECONDS

CrumbUse(crumb, cached, result) ==
    [call |-> yh.calls, crumb |-> crumb, cached |-> cached, at |-> yh.now,
     result |-> result]

\* lines 133-158: the cached crumb, or a getcrumb request: it gives a crumb
\* (which is cached with the time of line 133), gives empty text (nothing
\* is cached and the call returns {}), or fails (line 151 raises, line 172
\* catches, the call returns {}).
_fetch_prices_yahoo_with_crumb_crumb ==
    /\ yh.stage = "crumb"
    /\ IF CrumbFresh(yh.now)
       THEN yh' = [yh EXCEPT !.local = yh.crumb, !.cached = TRUE,
                             !.stage = "quote"]
       ELSE \E outcome \in {"crumb", "empty", "failed"} :
               IF outcome = "crumb"
               THEN yh' = [yh EXCEPT !.acquired = yh.acquired + 1,
                                     !.crumb = yh.acquired + 1,
                                     !.timestamp = yh.now,
                                     !.local = yh.acquired + 1,
                                     !.cached = FALSE,
                                     !.stage = "quote"]
               ELSE yh' = [yh EXCEPT
                              !.log = Append(yh.log,
                                         CrumbUse(0, FALSE, "nocrumb")),
                              !.stage = "idle"]
    /\ UNCHANGED <<monVars, pcRef, pcCur, pcOut, pcDone, store, svc, prov, req>>

\* lines 159-174: the quote request with the crumb: answered, rejected with
\* 401, or failed otherwise.  In each case the call returns and the globals
\* keep the crumb.
_fetch_prices_yahoo_with_crumb_quote ==
    /\ yh.stage = "quote"
    /\ \E result \in {"ok", "rejected", "failed"} :
          yh' = [yh EXCEPT
                    !.log = Append(yh.log,
                               CrumbUse(yh.local, yh.cached, result)),
                    !.local = 0,
                    !.cached = FALSE,
                    !.stage = "idle"]
    /\ UNCHANGED <<monVars, pcRef, pcCur, pcOut, pcDone, store, svc, prov, req>>

CrumbNext ==
    \/ TimePasses
    \/ _fetch_prices_yahoo_with_crumb_open
    \/ _fetch_prices_yahoo_with_crumb_crumb
    \/ _fetch_prices_yahoo_with_crumb_quote

SpecCrumb == CrumbInit /\ [][CrumbNext]_vars

-----------------------------------------------------------------------------
(* Properties *)

RoLabels == {"ro_start", "ro_fetch", "ro_lock", "ro_compare", "ro_save",
             "ro_notify", "ro_send", "ro_done"}

CsLabels == {"ro_compare", "ro_save"}

AlertsFor(t, s) == {j \in 1..Len(loc[t].alerts) : loc[t].alerts[j][1] = s}

AttemptsFor(t, s) == {j \in 1..Len(cyc[t].attempts) : cyc[t].attempts[j].symbol = s}

AlertSymbols(alerts) == [j \in 1..Len(alerts) |-> alerts[j][1]]

AttemptSymbols(attempts) == [j \in 1..Len(attempts) |-> attempts[j].symbol]

\* |percent_change(before, price)| compared with threshold, by cross
\* multiplication (before # 0)
MoveTimesDen(o, threshold) == Abs(o.price - o.before) * 100 * threshold[2]

ThresholdTimesRef(o, threshold) == threshold[1] * Abs(o.before)

\* C1: when a cycle has ended, every symbol that had a baseline b and was
\* observed at a price p with |percent_change(b, p)| >= threshold has
\* exactly one alert recorded, exactly one notification handed to the
\* gateway, and its baseline was set to p.
C1_BreachAlertsNotifiesRebases ==
    \A t \in Threads :
        pc[t] = "ro_done" =>
            \A i \in 1..Len(cyc[t].obs) :
                LET o == cyc[t].obs[i]
                IN  (/\ o.had
                     /\ RatGeq(RatAbs(percent_change(o.before, o.price)),
                               loc[t].threshold))
                    => /\ Cardinality(AlertsFor(t, o.symbol)) = 1
                       /\ Cardinality(AttemptsFor(t, o.symbol)) = 1
                       /\ o.after = o.price

\* C2: a comparison that finds no baseline for the symbol sets the baseline
\* to the observed price, and the cycle records no alert and hands no
\* notification over for that symbol.
C2_FirstSightSeedsWithoutAlert ==
    \A t \in Threads :
        \A i \in 1..Len(cyc[t].obs) :
            LET o == cyc[t].obs[i]
            IN  ~o.had => /\ o.after = o.price
                          /\ AlertsFor(t, o.symbol) = {}
                          /\ AttemptsFor(t, o.symbol) = {}

C2_Witness ==
    \E t \in Threads :
        /\ pc[t] = "ro_done"
        /\ cyc[t].status = "returned"
        /\ loc[t].alerts # <<>>
        /\ \E i \in 1..Len(cyc[t].obs) :
              /\ ~cyc[t].obs[i].had
              /\ cyc[t].obs[i].symbol \in DOMAIN baselines
              /\ baselines[cyc[t].obs[i].symbol] = cyc[t].obs[i].price

\* C3: the breach test is inclusive.  A comparison against a nonzero
\* baseline records an alert and rebases exactly when
\* |price - baseline| * 100 / |baseline| >= threshold, equality included, for
\* moves in both directions; a strictly smaller move records nothing and
\* keeps the baseline.
C3_BreachIsInclusive ==
    \A t \in Threads :
        \A i \in 1..Len(cyc[t].obs) :
            LET o == cyc[t].obs[i]
                th == loc[t].threshold
            IN  (o.had /\ o.before # 0) =>
                  IF MoveTimesDen(o, th) >= ThresholdTimesRef(o, th)
                  THEN /\ o.after = o.price
                       /\ \E j \in AlertsFor(t, o.symbol) :
                             /\ loc[t].alerts[j][2] = o.before
                             /\ loc[t].alerts[j][3] = o.price
                  ELSE /\ o.after = o.before
                       /\ AlertsFor(t, o.symbol) = {}

\* a cycle saw one move of exactly +threshold and one of exactly -threshold
C3_Witness ==
    \E t \in Threads :
        /\ pc[t] = "ro_done"
        /\ \E i, k \in 1..Len(cyc[t].obs) :
              LET up == cyc[t].obs[i]
                  down == cyc[t].obs[k]
                  th == loc[t].threshold
              IN  /\ up.had /\ down.had
                  /\ up.price > up.before /\ down.price < down.before
                  /\ MoveTimesDen(up, th) = ThresholdTimesRef(up, th)
                  /\ MoveTimesDen(down, th) = ThresholdTimesRef(down, th)
                  /\ Cardinality(AlertsFor(t, up.symbol)) = 1
                  /\ Cardinality(AlertsFor(t, down.symbol)) = 1

\* C4: percent_change(reference, current) is 0 when reference is 0, and
\* otherwise the number q with q * reference = (current - reference) * 100;
\* percent_change(100, 110) = 10.
C4_PercentChangeValue ==
    pcDone =>
        /\ pcOut[2] > 0
        /\ pcRef = 0 => pcOut = <<0, 1>>
        /\ pcRef # 0 => pcOut[1] * pcRef = (pcCur - pcRef) * 100 * pcOut[2]
        /\ (pcRef = 100 /\ pcCur = 110) => pcOut = <<10, 1>>

C4_Witness == pcDone /\ pcRef = 0 /\ pcCur = 110 /\ pcOut = <<0, 1>>

\* C5: the step in which the price provider raises or returns an empty map
\* ends the cycle with a normal return, leaves the baselines and the
\* persisted file unchanged, and the cycle has called save_state zero
\* times, compared nothing and handed nothing to the gateway.
C5_FetchFailureAbortsCycle ==
    [][\A t \in Threads :
          (cyc[t].fetched = "no" /\ cyc'[t].fetched \in {"raised", "empty"})
          => /\ pc'[t] = "ro_done"
             /\ cyc'[t].status = "aborted"
             /\ baselines' = baselines
             /\ file' = file
             /\ cyc'[t].saves = 0
             /\ cyc'[t].obs = <<>>
             /\ cyc'[t].attempts = <<>>]_vars

C5_Witness ==
    \E t \in Threads :
        /\ pc[t] = "ro_done"
        /\ cyc[t].fetched = "raised"
        /\ cyc[t].status = "aborted"
        /\ DOMAIN baselines # {}
        /\ file = FileOf(baselines)

\* C6: a cycle whose snapshot has an empty symbol list ends in the snapshot
\* step (the step that takes it on from its start, other than the end of
\* the process): it does not call the price provider or save_state, hands nothing
\* to the gateway, and leaves baselines and file unchanged.
C6_NoSymbolsIsNoOp ==
    [][\A t \in Threads :
          (/\ pc[t] = "ro_start" /\ pc'[t] # "ro_start"
           /\ config.etf_symbols = <<>>
           /\ ~restart)
          => /\ pc'[t] = "ro_done"
             /\ cyc'[t].status = "noop"
             /\ cyc'[t].fetched = "no"
             /\ cyc'[t].saves = 0
             /\ cyc'[t].attempts = <<>>
             /\ baselines' = baselines
             /\ file' = file]_vars

C6_Witness ==
    \E t \in Threads :
        /\ pc[t] = "ro_done"
        /\ cyc[t].status = "noop"
        /\ loc[t].symbols = <<>>
        /\ cyc[t].fetched = "no"

\* C7: the cadence loop is never terminated by an error: the thread running
\* _run_loop ends only after stop() was requested.
C7_LoopSurvivesErrors ==
    pc["timer"] \in {"dead", "exited"} => (stopEvent /\ pc["timer"] = "exited")

\* C8: each hand-over of an alert to the gateway, failed ones included,
\* leaves baselines and file unchanged and does not end run_once with an
\* exception; the cycle goes on with the next alert, and returns normally
\* once every recorded alert has been handed over.
C8_DeliveryFailureIsolated ==
    [][\A t \in Threads :
          Len(cyc'[t].attempts) > Len(cyc[t].attempts)
          => /\ baselines' = baselines
             /\ file' = file
             /\ cyc'[t].status # "raised"
             /\ AttemptSymbols(cyc'[t].attempts) \o AlertSymbols(loc'[t].pending)
                   = AlertSymbols(loc'[t].alerts)
             /\ IF loc'[t].pending = <<>>
                THEN pc'[t] = "ro_done" /\ cyc'[t].status = "returned"
                ELSE pc'[t] = "ro_notify"]_vars

C8_Witness ==
    \E t \in Threads :
        /\ pc[t] = "ro_done"
        /\ cyc[t].status = "returned"
        /\ Len(cyc[t].attempts) = 2
        /\ cyc[t].attempts[1].result = "failed"
        /\ cyc[t].attempts[2].result = "sent"
        /\ \A s \in Symbols : s \in DOMAIN baselines /\ baselines[s] = loc[t].prices[s]
        /\ file = FileOf(baselines)

\* C9: an in-flight cycle is unaffected by update_config: every alert it
\* hands over goes through the gateway settings that were active when the
\* cycle took its configuration snapshot.
C9_InFlightCycleKeepsGateway ==
    \A t \in Threads :
        \A j \in 1..Len(cyc[t].attempts) :
            cyc[t].attempts[j].client = cyc[t].client

\* C10 (as stated): there are no concurrent cycles, at most one run_once is
\* in progress at any time.
C10_NoConcurrentCycles ==
    Cardinality({t \in Threads : pc[t] \in RoLabels}) <= 1

MutexInv ==
    /\ Cardinality({t \in Threads : pc[t] \in CsLabels}) <= 1
    /\ \A t \in Threads : lock = t <=> pc[t] \in CsLabels

\* C10 (amended): cycles may overlap, but their lock-guarded sections do
\* not: at most one thread is inside a compare-and-save critical section,
\* and while it is, no other thread takes a configuration snapshot, enters
\* a critical section, reads the interval or changes config, gateway,
\* baselines or file.
C10_CriticalSectionsExclusive ==
    [][/\ MutexInv
       /\ MutexInv'
       /\ \A t \in Threads :
             (lock = t /\ pc'[t] = pc[t] /\ loc'[t] = loc[t])
             => /\ baselines' = baselines
                /\ file' = file
                /\ config' = config
                /\ haClient' = haClient
                /\ \A u \in Threads \ {t} :
                      pc[u] \in {"ro_start", "ro_lock", "loop_interval"}
                      => pc'[u] = pc[u]]_vars

\* the manual cycle waits for the lock while the timer's cycle compares
C10_Witness ==
    /\ lock = "timer"
    /\ pc["timer"] = "ro_compare"
    /\ pc["web"] = "ro_lock"

\* The positions at which a cycle is calling the price provider or is
\* handing an alert to the gateway.
NetLabels == {"ro_fetch", "ro_notify", "ro_send"}

\* C11: the lock is never held by a cycle that is calling the price provider
\* or delivering a notification: while the timer's cycle is at such a call
\* and the web thread is idle, a read of the state (and so an update_config,
\* which needs the same lock) can take the lock at once.
C11_NetworkCallsOutsideLock ==
    /\ \A t \in Threads : pc[t] \in NetLabels => lock # t
    /\ (pc["timer"] \in NetLabels /\ pc["web"] = "idle")
          => (LockAvailable("web") /\ ENABLED state)

C11_Witness ==
    /\ pc["timer"] = "ro_send"
    /\ pc["web"] = "state_read"
    /\ snap = dict(baselines)
    /\ DOMAIN snap.items # {}

\* C12: a restart neither loses baselines nor alerts spuriously: whenever no
\* cycle is inside its critical section the file loads to the in-memory
\* baselines, and a restart at such a moment constructs a monitor whose
\* baselines are the ones the ended process had, with its loop about to run
\* the first cycle.
C12_RestartKeepsBaselines ==
    [][/\ lock = "free"
            => load_state(file) = [raised |-> FALSE, baselines |-> baselines]
       /\ (restart /\ lock = "free")
            => (baselines' = baselines /\ pc'["timer"] = "loop_check")]_vars

\* The members of the "baselines" object of a file, when the file is a JSON
\* object that has one.
BaselineItems(f) ==
    IF f.kind = "json" /\ f.root.t = "obj"
       /\ \E i \in 1..Len(f.root.items) :
              f.root.items[i][1] = "baselines" /\ f.root.items[i][2].t = "obj"
    THEN (CHOOSE v \in Range(f.root.items) :
              v[1] = "baselines" /\ v[2].t = "obj")[2].items
    ELSE <<>>

\* C13: load_state never raises; from a missing or corrupt file it returns
\* the empty record, and from a file of the expected shape exactly the
\* entries whose value is a number (under the uppercased symbol).
C13_LoadNeverFails ==
    /\ store.stage # "raised"
    /\ (store.from = "file" /\ store.loads = 1 /\ store.saves = 0)
         => LET items == BaselineItems(store.f0)
                Numeric(K) == {i \in 1..Len(items) :
                                  /\ upper(items[i][1]) = K
                                  /\ items[i][2].t \in {"num", "numstr"}}
            IN  \A K \in Symbols :
                   IF Numeric(K) = {} THEN K \notin DOMAIN store.cur
                   ELSE /\ K \in DOMAIN store.cur
                        /\ \E i \in Numeric(K) :
                              /\ \A j \in Numeric(K) : j <= i
                              /\ store.cur[K] = items[i][2].n

\* C14: save_state replaces the file atomically: whatever a step does to the
\* file, a reader finds afterwards the complete record that was there
\* before or the complete record being saved, never a cut-off one.
C14_SaveIsAtomic ==
    [][file' \in {file, FileOf(baselines)}]_vars

\* C15: the file round-trips: for a valid record x, load_state after
\* save_state(x) gives x, and saving that result and loading again gives x
\* too, each save writing the same file.
C15_RoundTrip ==
    store.from = "record"
      => /\ store.stage # "raised"
         /\ store.stage = "record" => store.cur = store.x
         /\ store.stage = "file"
              => load_state(store.file) =
                    [raised |-> FALSE, baselines |-> store.x]

C15_Witness ==
    /\ store.from = "record"
    /\ store.stage = "record"
    /\ store.saves = 2
    /\ store.loads = 2
    /\ DOMAIN store.x = Symbols
    /\ store.cur = store.x

\* C16: default_price_provider does not raise when requests, providers or
\* symbols fail, and the map it returns has exactly the symbols for which
\* some provider answered with a price during the call.
C16_ProviderAbsorbsFailures ==
    /\ prov.stage # "raised"
    /\ prov.stage = "done" => DOMAIN prov.prices = prov.returned

ProviderRank(p) ==
    IF p = "primary" THEN 1 ELSE IF p = "crumb" THEN 2
    ELSE IF p = "stooq" THEN 3 ELSE 4

\* The calls made so far came in the order primary, crumb, CSV, CSV with
\* suffixes (only the primary's batches and the suffix rounds repeat), and
\* every call after the primary's got symbols without a price only: all of
\* them for the crumb and CSV providers, and never an empty list.
CallsInOrder ==
    \A i \in 1..Len(prov.calls) :
       LET c == prov.calls[i]
           unpriced == Range(prov.symbol_list) \ c.had
       IN  /\ c.symbols # <<>>
           /\ \A j \in 1..(i - 1) :
                 \/ ProviderRank(prov.calls[j].provider) < ProviderRank(c.provider)
                 \/ /\ prov.calls[j].provider = c.provider
                    /\ c.provider \in {"primary", "suffix"}
           /\ c.provider \in {"crumb", "stooq"} => Range(c.symbols) = unpriced
           /\ c.provider = "suffix" => Range(c.symbols) \subseteq unpriced

C18_SplitService ==
    svc.done =>
       LET hasSlash == "/" \in Range(svc.service)
           hasDot == "." \in Range(svc.service)
           sep == IF hasSlash THEN "/" ELSE "."
       IN  /\ svc.ok <=> (hasSlash \/ hasDot)
           /\ svc.ok => /\ svc.domain \o <<sep>> \o svc.name = svc.service
                        /\ sep \notin Range(svc.domain)

C18_Witness ==
    /\ svc.done
    /\ svc.service = <<"n", ".", "/">>
    /\ svc.ok
    /\ svc.domain = <<"n", ".">>
    /\ svc.name = <<>>

\* The gateway lacks its base URL, its token or its service id.
Unconfigured(client) ==
    client.base_url = <<>> \/ client.token = "" \/ client.notify_service = <<>>

\* C19: while the gateway is not configured no delivery is attempted: every
\* hand-over of an alert that finds an unconfigured gateway is a skip
\* (send_notification is not called on it), and the cycle goes on to its
\* normal end.
C19_UnconfiguredGatewaySkips ==
    \A t \in Threads :
       /\ \A i \in 1..Len(cyc[t].attempts) :
             Unconfigured(cyc[t].attempts[i].client)
                => cyc[t].attempts[i].result = "skipped"
       /\ cyc[t].attempts # <<>> => cyc[t].status # "raised"

C21_WaitIsFlooredInterval ==
    [][/\ (pc["timer"] = "loop_interval" /\ pc'["timer"] = "loop_wait")
            => /\ interval' = Max(config.poll_interval_seconds, 60)
               /\ interval' >= 60
               /\ config.poll_interval_seconds >= 60
                     => interval' = config.poll_interval_seconds
       /\ (pc["timer"] = "ro_done" /\ pc'["timer"] \notin {"ro_done", "dead"}
            /\ ~restart)
            => pc'["timer"] = "loop_interval"
       /\ (pc["timer"] = "loop_wait" /\ ~restart)
            => /\ interval' = interval
               /\ interval >= 60
               /\ pc'["timer"] \in {"loop_wait", "loop_check"}
       /\ (pc'["timer"] = "loop_check" /\ pc["timer"] # "loop_check"
            /\ ~restart)
            => pc["timer"] = "loop_wait"
       /\ (pc'["timer"] = "ro_start" /\ pc["timer"] # "ro_start")
            => pc["timer"] = "loop_check"]_vars

\* the loop waits 60 seconds under a configuration, put in place by
\* update_config, that asks for a negative interval
C21_Witness ==
    /\ pc["timer"] = "loop_wait"
    /\ interval = 60
    /\ config.poll_interval_seconds < 0
    /\ updates > 0
    /\ cycles > 0

\* C22: every alert a cycle recorded in its critical section is handed to
\* the gateway exactly once in that cycle (sent, failed or skipped), in the
\* order recorded, so that a cycle that has ended has an attempt for each
\* of its alerts; and attempts are made only after the cycle called
\* save_state and released the lock.
C22_EveryAlertIsAttempted ==
    \A t \in Threads :
       /\ pc[t] = "ro_done"
            => AttemptSymbols(cyc[t].attempts) = AlertSymbols(loc[t].alerts)
       /\ cyc[t].attempts # <<>> => (cyc[t].saves = 1 /\ lock # t)

\* C23: a cycle calls save_state once per cycle, not once per symbol: the
\* call is made by a cycle that holds the lock and has compared every
\* symbol of the price map it fetched, it is that cycle's first call, and
\* only this step changes the file; a cycle past its critical section has
\* made exactly one call, and one that has not reached the end of the
\* comparisons (a no-op or an aborted cycle among them) has made none.
C23_SingleSavePerCycle ==
    [][\A t \in Threads :
          /\ cyc'[t].saves # cyc[t].saves /\ ~restart /\ pc[t] # "ro_done"
               => /\ pc[t] = "ro_save"
                  /\ lock = t
                  /\ cyc[t].saves = 0 /\ cyc'[t].saves = 1
                  /\ loc[t].todo = <<>>
                  /\ {cyc[t].obs[i].symbol : i \in 1..Len(cyc[t].obs)}
                        = DOMAIN loc[t].prices
                  /\ lock' = "free"
          /\ file' # file => \E u \in Threads : cyc'[u].saves = cyc[u].saves + 1
          /\ pc[t] \in {"ro_notify", "ro_send"} => cyc[t].saves = 1
          /\ pc[t] \in {"ro_start", "ro_fetch", "ro_lock", "ro_compare", "ro_save"}
               => cyc[t].saves = 0
          /\ pc[t] = "ro_done"
               => cyc[t].saves = IF cyc[t].fetched = "prices" THEN 1 ELSE 0]_vars

\* a cycle that seeded two baselines has ended after one save
C23_Witness ==
    \E t \in Threads :
       /\ pc[t] = "ro_done"
       /\ cyc[t].status = "returned"
       /\ cyc[t].saves = 1
       /\ Len(cyc[t].obs) = 2
       /\ \A i \in 1..2 : ~cyc[t].obs[i].had
       /\ file = FileOf(baselines)

\* The step is the comparison, by some cycle, of symbol s at a price that
\* becomes the baseline of s.
ComparesAndSets(s) ==
    \E t \in Threads :
       /\ pc[t] = "ro_compare"
       /\ Head(loc[t].todo) = s
       /\ baselines'[s] = loc[t].prices[s]

\* C24: no step of a cycle and no update_config deletes a baseline entry; an
\* entry appears only when a cycle compares a symbol that has none (seed),
\* and changes only when a cycle compares its symbol at a price whose
\* percent change from the entry reaches the threshold of the cycle.  So a
\* below-threshold comparison, a symbol missing from the price map and a
\* symbol no longer configured leave the entry as it is.
C24_BaselineFrame ==
    [][~restart =>
          /\ DOMAIN baselines \subseteq DOMAIN baselines'
          /\ \A s \in DOMAIN baselines' \ DOMAIN baselines : ComparesAndSets(s)
          /\ \A s \in DOMAIN baselines :
                baselines'[s] # baselines[s]
                  => /\ ComparesAndSets(s)
                     /\ \E t \in Threads :
                           /\ pc[t] = "ro_compare" /\ Head(loc[t].todo) = s
                           /\ RatGeq(RatAbs(percent_change(baselines[s],
                                                           loc[t].prices[s])),
                                     loc[t].threshold)
          /\ (\E c \in Configs : update_config(c)) => baselines' = baselines]_vars

\* a cycle has compared A at a price below the threshold and kept A's
\* baseline, while B, which the active configuration no longer lists and for
\* which no price came, still has its entry
C24_Witness ==
    \E t \in Threads :
       /\ pc[t] = "ro_done"
       /\ \E i \in 1..Len(cyc[t].obs) :
             LET o == cyc[t].obs[i]
             IN  /\ o.symbol = "A" /\ o.had
                 /\ o.price # o.before /\ o.after = o.before
                 /\ baselines["A"] = o.before
       /\ "B" \notin DOMAIN loc[t].prices
       /\ "B" \notin Range(config.etf_symbols)
       /\ updates > 0
       /\ "B" \in DOMAIN baselines

\* C25: a read of EtfMonitor.state alongside the loop is safe.  It is taken
\* only while no cycle is inside its critical section (so it never shows a
\* cycle applied in part), it gives a dict of its own holding the baselines
\* of that moment, it can be taken whenever the web thread is idle and no
\* cycle is inside its critical section, it leaves the cycles in flight
\* where they are, and an assignment to the returned dict changes neither
\* the monitor's baselines nor the file.
C25_StateSnapshotIsSafe ==
    [][/\ state => /\ \A t \in Threads : pc[t] \notin CsLabels
                   /\ lock = "free" /\ lock' = "free"
                   /\ snap' = [id |-> "copy", items |-> baselines]
                   /\ baselines' = baselines
                   /\ pc'["timer"] = pc["timer"]
                   /\ loc' = loc /\ cyc' = cyc
       /\ (pc["web"] = "idle" /\ \A t \in Threads : pc[t] \notin CsLabels)
            => ENABLED state
       /\ (\E t \in Threads : pc[t] \in CsLabels) => ~ENABLED state
       /\ state_mutate => /\ snap'.items # snap.items
                          /\ baselines' = baselines
                          /\ file' = file
       /\ (pc["web"] = "state_read" /\ pc'["web"] = "state_read")
            => snap' = snap]_vars

\* the web thread changed the dict it got while the timer's cycle was
\* waiting to enter its critical section, and the baselines are intact
C25_Witness ==
    /\ pc["web"] = "state_mutated"
    /\ pc["timer"] = "ro_lock"
    /\ snap.id = "copy"
    /\ DOMAIN baselines = Symbols
    /\ snap.items["A"] # baselines["A"]
    /\ snap.items["B"] = baselines["B"]

\* The wait the claim asks for after a 429 with this header on this attempt
\* (0 for the first attempt).
ExpectedWait(header, attempt) ==
    IF header.kind = "seconds" THEN header.n
    ELSE IF header.kind = "date" THEN Max(header.n, 0)
    ELSE IF attempt = 0 THEN 2 ELSE 4

\* C26: a request that keeps answering 429 is attempted at most 3 times.
\* The call does not raise; each host gets at most three requests; a 429 on
\* the first or second attempt is followed by a wait of the Retry-After
\* delay when the header gives one, otherwise of 2 s resp. 4 s, and then by
\* the next attempt on the same host; a 429 on the third attempt is the
\* last request of the call, which returns without prices.
C26_RateLimitRetries ==
    /\ req.stage # "raised"
    /\ \A u \in 1..2 :
          Cardinality({i \in 1..Len(req.log) :
                          req.log[i].ev = "get" /\ req.log[i].url = u}) <= 3
    /\ \A i \in 1..Len(req.log) :
          LET e == req.log[i]
          IN  (e.ev = "get" /\ e.status = "429") =>
                IF e.attempt < 2
                THEN /\ i = Len(req.log) => req.stage = "sleep"
                     /\ i < Len(req.log)
                          => /\ req.log[i + 1].ev = "sleep"
                             /\ req.log[i + 1].d = ExpectedWait(e.header, e.attempt)
                     /\ i + 1 < Len(req.log)
                          => /\ req.log[i + 2].ev = "get"
                             /\ req.log[i + 2].url = e.url
                             /\ req.log[i + 2].attempt = e.attempt + 1
                ELSE /\ i = Len(req.log)
                     /\ req.stage = "returned"
                     /\ ~req.prices

\* C27: the crumb is acquired once and cached for 30 minutes.  A quote
\* request made with a cached crumb uses one that was obtained less than
\* 1800 s before; a getcrumb request is made only when no crumb was obtained
\* in the last 1800 s or the one obtained was rejected since; and a crumb
\* that a quote request was rejected with is not taken from the cache
\* afterwards.
C27_CrumbCachedAndRefreshed ==
    \A j \in 1..Len(yh.log) :
       LET u == yh.log[j]
           Obtained(i) == /\ i < j
                          /\ ~yh.log[i].cached
                          /\ yh.log[i].crumb # 0
                          /\ u.at - yh.log[i].at < _YAHOO_CRUMB_TTL_SECONDS
           RejectedSince(i) == \E k \in i..(j - 1) :
                                  /\ yh.log[k].crumb = yh.log[i].crumb
                                  /\ yh.log[k].result = "rejected"
       IN  /\ u.cached
             => \E i \in 1..(j - 1) : Obtained(i) /\ yh.log[i].crumb = u.crumb
           /\ ~u.cached
             => \A i \in 1..(j - 1) : Obtained(i) => RejectedSince(i)
           /\ u.cached
             => \A i \in 1..(j - 1) :
                   ~(yh.log[i].crumb = u.crumb /\ yh.log[i].result = "rejected")

\* The rounds of the suffix loop in which the fetcher returned a price for
\* the candidate of sym.
RoundsPricing(sym) ==
    {k \in 1..Len(prov.rounds) :
        \E i \in 1..Len(prov.rounds[k].originals) :
           /\ prov.rounds[k].originals[i] = sym
           /\ UpperSym(prov.rounds[k].lookup[i]) \in prov.rounds[k].fetched}

\* C28: the suffix fallback.  Every round of fetches looks up, for the
\* suffix of its turn (in list order, none skipped while a lookup is left),
\* the candidates symbol + suffix of exactly the symbols handed in that
\* contain no '.' and were not resolved by an earlier round; a symbol is
\* resolved by the first round whose fetch returned a price for its
\* candidate and keeps that price; a round is made only while a symbol is
\* unresolved and a suffix is left; and the result maps original symbols.
C28_SuffixFallback ==
    LET dotless == {sym \in Range(prov.given) : "." \notin Range(sym)}
    IN  /\ \A k \in 1..Len(prov.rounds) :
              LET r == prov.rounds[k]
              IN  /\ r.sfx = k /\ k <= Len(Suffixes)
                  /\ r.originals # <<>>
                  /\ Range(r.originals) = dotless \ r.had
                  /\ Len(r.lookup) = Len(r.originals)
                  /\ \A i \in 1..Len(r.originals) :
                        r.lookup[i] = r.originals[i] \o Suffixes[r.sfx]
                  /\ r.had = {sym \in dotless :
                                 \E j \in RoundsPricing(sym) : j < k}
        /\ DOMAIN prov.mapped = {sym \in dotless : RoundsPricing(sym) # {}}
        /\ \A sym \in DOMAIN prov.mapped :
              \E k \in RoundsPricing(sym) :
                 /\ \A j \in RoundsPricing(sym) : k <= j
                 /\ prov.mapped[sym] = SuffixPrice(prov.rounds[k].sfx)
        /\ prov.stage = "done"
              => /\ \/ dotless \subseteq DOMAIN prov.mapped
                    \/ Len(prov.rounds) = Len(Suffixes)
                 /\ \A sym \in DOMAIN prov.mapped :
                       prov.prices[sym] = prov.mapped[sym]

\* X, handed in with Z.L, was resolved by the second suffix; no candidate
\* was built from Z.L and no further round was made
C28_Witness ==
    /\ prov.stage = "done"
    /\ prov.given = << <<"X">>, <<"Z", ".", "L">> >>
    /\ Len(prov.rounds) = 2
    /\ prov.rounds[2].lookup = << <<"X", ".", "D", "E">> >>
    /\ prov.mapped = [sym \in {<<"X">>} |-> SuffixPrice(2)]
    /\ <<"Z", ".", "L">> \notin DOMAIN prov.prices

\* The comparisons of symbol s the cycle of thread t has made.
ObsFor(t, s) == {i \in 1..Len(cyc[t].obs) : cyc[t].obs[i].symbol = s}

\* C29: overlapping cycles do not duplicate alerts.  When the cycles of both
\* threads have ended, both compared symbol s at the same price, and for one
\* of them the percent change from the baseline it found reached its
\* threshold, then exactly one of the two cycles recorded an alert for s
\* (one alert) and exactly one notification for s was handed to the
\* gateway.
C29_OverlapAlertsOnce ==
    \A s \in Symbols :
       (/\ \A t \in Threads : pc[t] = "ro_done" /\ ObsFor(t, s) # {}
        /\ \A i \in ObsFor("timer", s) : \A k \in ObsFor("web", s) :
              cyc["timer"].obs[i].price = cyc["web"].obs[k].price
        /\ \E t \in Threads : \E i \in ObsFor(t, s) :
              /\ cyc[t].obs[i].had
              /\ RatGeq(RatAbs(percent_change(cyc[t].obs[i].before,
                                              cyc[t].obs[i].price)),
                        loc[t].threshold))
       => /\ \E t \in Threads :
                /\ Cardinality(AlertsFor(t, s)) = 1
                /\ \A u \in Threads \ {t} : AlertsFor(u, s) = {}
          /\ \E t \in Threads :
                /\ Cardinality(AttemptsFor(t, s)) = 1
                /\ \A u \in Threads \ {t} : AttemptsFor(u, s) = {}

====
